---- MODULE Spec2Model ----
(***************************************************************************)
(* Model of the SGF property converters of core/prop/converter_list.go.    *)
(*                                                                         *)
(* Go strings are sequences of one-character strings, so that parsing and  *)
(* formatting are computed character by character.  A Go pointer is a      *)
(* sequence of length 0 (nil) or 1 (the value pointed to).                 *)
(***************************************************************************)
EXTENDS Integers, Sequences, FiniteSets, TLC

VARIABLES node, ret

vars == <<node, ret>>

(***************************************************************************)
(* Bounds of the model.                                                    *)
(***************************************************************************)
\* longest raw-value list handed to a decode call
MaxData == 2
\* decode calls that would grow the placement collection beyond this are not taken
MaxPlacements == 2

(***************************************************************************)
(* Strings.                                                                *)
(***************************************************************************)
Digits == <<"0", "1", "2", "3", "4", "5", "6", "7", "8", "9">>

IsDigit(c) == \E i \in 1..10 : Digits[i] = c

DigitVal(c) == (CHOOSE i \in 1..10 : Digits[i] = c) - 1

AllDigits(s) == \A i \in 1..Len(s) : IsDigit(s[i])

RECURSIVE DigitsVal(_)
\* value of a non-empty or empty run of decimal digits (empty run: 0)
DigitsVal(s) ==
  IF s = <<>> THEN 0
  ELSE 10 * DigitsVal(SubSeq(s, 1, Len(s) - 1)) + DigitVal(s[Len(s)])

RECURSIVE NatToStr(_)
NatToStr(n) ==
  IF n < 10 THEN <<Digits[n + 1]>>
  ELSE NatToStr(n \div 10) \o <<Digits[(n % 10) + 1]>>

\* strconv.Itoa
Itoa(n) == IF n < 0 THEN <<"-">> \o NatToStr(-n) ELSE NatToStr(n)

HasSign(s) == s # <<>> /\ s[1] \in {"+", "-"}

Unsigned(s) == IF HasSign(s) THEN Tail(s) ELSE s

\* strconv.Atoi: an optional sign and at least one decimal digit
Atoi(s) ==
  LET body == Unsigned(s)
  IN IF body = <<>> \/ ~AllDigits(body)
     THEN [err |-> TRUE, val |-> 0]
     ELSE [err |-> FALSE,
           val |-> IF s[1] = "-" THEN -DigitsVal(body) ELSE DigitsVal(body)]

(***************************************************************************)
(* float64 values of decimal literals: sign, integer part and the          *)
(* fractional digits without trailing zeros.  Negative zero is a value of  *)
(* its own, as in IEEE 754.                                                *)
(***************************************************************************)
RECURSIVE StripZeros(_)
StripZeros(ds) ==
  IF ds # <<>> /\ ds[Len(ds)] = 0 THEN StripZeros(SubSeq(ds, 1, Len(ds) - 1))
  ELSE ds

DotAt(s) == IF \E i \in 1..Len(s) : s[i] = "."
            THEN CHOOSE i \in 1..Len(s) : s[i] = "." /\ \A j \in 1..(i - 1) : s[j] # "."
            ELSE Len(s) + 1

\* strconv.ParseFloat(s, 64) on decimal literals [+-]digits[.digits]
ParseFloat(s) ==
  LET body == Unsigned(s)
      d    == DotAt(body)
      ip   == SubSeq(body, 1, d - 1)
      fp   == SubSeq(body, d + 1, Len(body))
  IN IF ~AllDigits(ip) \/ ~AllDigits(fp) \/ (ip = <<>> /\ fp = <<>>)
     THEN [err |-> TRUE, val |-> [neg |-> FALSE, int |-> 0, frac |-> <<>>]]
     ELSE [err |-> FALSE,
           val |-> [neg  |-> (s[1] = "-"),
                    int  |-> DigitsVal(ip),
                    frac |-> StripZeros([i \in 1..Len(fp) |-> DigitVal(fp[i])])]]

\* _, fp := math.Modf(komi); fp == 0.5 || fp == 0.0
\* Modf gives the fractional part the sign of its argument: the fractional
\* part of -6.5 is -0.5, and that of -6.0 is -0.0, which equals 0.0.
FracIsHalf(f) == ~f.neg /\ f.frac = <<5>>

FracIsZero(f) == f.frac = <<>>

KomiFracOk(f) == FracIsHalf(f) \/ FracIsZero(f)

\* strconv.FormatFloat(komi, 'f', 1, 64), for values of at most one
\* fractional digit (all that KomiTo formats)
FormatFloat1(f) ==
  (IF f.neg THEN <<"-">> ELSE <<>>) \o NatToStr(f.int) \o <<".">>
    \o <<Digits[(IF f.frac = <<>> THEN 0 ELSE f.frac[1]) + 1]>>

(***************************************************************************)
(* Colours (core/color), points and moves (core/move), as the converters   *)
(* use them.                                                               *)
(***************************************************************************)
Black == <<"B">>

White == <<"W">>

Empty == <<>>

SZ == <<"S", "Z">>

AB == <<"A", "B">>

AW == <<"A", "W">>

B == <<"B">>

W == <<"W">>

KM == <<"K", "M">>

PL == <<"P", "L">>

\* color.FromSGFProp
FromSGFProp(prop) ==
  IF prop \in {B, AB} THEN [err |-> FALSE, col |-> Black]
  ELSE IF prop \in {W, AW} THEN [err |-> FALSE, col |-> White]
  ELSE [err |-> TRUE, col |-> Empty]

CoordLetters == <<"a", "b", "c", "d", "e", "f", "g", "h", "i", "j", "k", "l", "m",
                  "n", "o", "p", "q", "r", "s", "t", "u", "v", "w", "x", "y", "z">>

IsCoord(c) == \E i \in 1..Len(CoordLetters) : CoordLetters[i] = c

CoordVal(c) == (CHOOSE i \in 1..Len(CoordLetters) : CoordLetters[i] = c) - 1

\* point.NewFromSGF: two coordinate letters, column then row
NewFromSGF(s) ==
  IF Len(s) = 2 /\ IsCoord(s[1]) /\ IsCoord(s[2])
  THEN [err |-> FALSE, pt |-> [x |-> CoordVal(s[1]), y |-> CoordVal(s[2])]]
  ELSE [err |-> TRUE, pt |-> [x |-> 0, y |-> 0]]

\* (*Point).ToSGF
ToSGF(pt) ==
  IF pt.x \in 0..(Len(CoordLetters) - 1) /\ pt.y \in 0..(Len(CoordLetters) - 1)
  THEN [err |-> FALSE, s |-> <<CoordLetters[pt.x + 1], CoordLetters[pt.y + 1]>>]
  ELSE [err |-> TRUE, s |-> <<>>]

\* a *move.Move: a colour and a *Point, nil for a pass
NewMove(col, pt) == [color |-> col, point |-> <<pt>>]

NewPass(col) == [color |-> col, point |-> <<>>]

IsPass(mv) == mv.point = <<>>

\* move.FromSGFPoint: the empty raw value is a pass
FromSGFPoint(col, raw) ==
  IF raw = <<>> THEN [err |-> FALSE, mv |-> NewPass(col)]
  ELSE LET p == NewFromSGF(raw)
       IN [err |-> p.err, mv |-> NewMove(col, p.pt)]

\* move.ListFromSGFPoints: every raw value must parse as a point
ListFromSGFPoints(col, data) ==
  IF \E i \in 1..Len(data) : NewFromSGF(data[i]).err
  THEN [err |-> TRUE, moves |-> <<>>]
  ELSE [err |-> FALSE,
        moves |-> [i \in 1..Len(data) |-> NewMove(col, NewFromSGF(data[i]).pt)]]

(***************************************************************************)
(* movetree.Node and movetree.GameInfo.                                    *)
(***************************************************************************)
\* &movetree.GameInfo{}: size 0, no komi, no player
NewGameInfo == [Size |-> 0, Komi |-> <<>>, Player |-> Empty]

\* a fresh node: no GameInfo, no move, no placements
NewNode == [GameInfo |-> <<>>, Move |-> <<>>, Placements |-> <<>>]

\* if n.GameInfo == nil { n.GameInfo = &movetree.GameInfo{} }
EnsureGameInfo(n) ==
  IF n.GameInfo = <<>> THEN [n EXCEPT !.GameInfo = <<NewGameInfo>>] ELSE n

\* what a decode call does: the node afterwards, and "ok" (nil error),
\* "err" (an error value) or "panic" (a run-time panic)
Done(n) == [n |-> n, res |-> "ok"]

Fail(n) == [n |-> n, res |-> "err"]

Panic(n) == [n |-> n, res |-> "panic"]

\* what an encode call returns
Frag(s) == [frag |-> s, err |-> FALSE]

FragErr == [frag |-> <<>>, err |-> TRUE]

Bracket(s) == <<"[">> \o s \o <<"]">>

(***************************************************************************)
(* The converters.                                                         *)
(***************************************************************************)
MinSize == 1

MaxSize == 25

\* BoardSizeFrom with the upper bound off by one
BoardSizeFromWide(n, prop, data) ==
  IF Len(data) # 1 THEN Fail(n)
  ELSE LET a == Atoi(data[1])
       IN IF a.err THEN Fail(n)
          ELSE IF a.val < MinSize \/ a.val > MaxSize + 1 THEN Fail(n)
          ELSE Done([EnsureGameInfo(n) EXCEPT !.GameInfo[1].Size = a.val])

\* Board Size, From
BoardSizeFrom(n, prop, data) ==
  IF Len(data) # 1 THEN Fail(n)
  ELSE LET a == Atoi(data[1])
       IN IF a.err THEN Fail(n)
          ELSE IF a.val < MinSize \/ a.val > MaxSize THEN Fail(n)
          ELSE Done([EnsureGameInfo(n) EXCEPT !.GameInfo[1].Size = a.val])

\* Board Size, To
BoardSizeTo(n) ==
  IF n.GameInfo = <<>> THEN Frag(<<>>)
  ELSE LET sz == n.GameInfo[1].Size
       IN IF sz = 0 THEN Frag(<<>>)
          ELSE IF sz < MinSize \/ sz > MaxSize THEN FragErr
          ELSE Frag(SZ \o Bracket(Itoa(sz)))

\* PlacementsFrom replacing the collection instead of appending to it
PlacementsFromReplace(n, prop, data) ==
  LET c == FromSGFProp(prop)
  IN IF c.err THEN Fail(n)
     ELSE LET l == ListFromSGFPoints(c.col, data)
          IN IF l.err THEN Fail(n)
             ELSE Done([n EXCEPT !.Placements = l.moves])

\* Placements, From
PlacementsFrom(n, prop, data) ==
  LET c == FromSGFProp(prop)
  IN IF c.err THEN Fail(n)
     ELSE LET l == ListFromSGFPoints(c.col, data)
          IN IF l.err THEN Fail(n)
             ELSE Done([n EXCEPT !.Placements = n.Placements \o l.moves])

\* the SGF points of the placements of one colour, in the collection's order
RECURSIVE PointsOf(_, _)
PointsOf(pls, col) ==
  IF pls = <<>> THEN <<>>
  ELSE IF pls[1].color = col
       THEN <<ToSGF(pls[1].point[1]).s>> \o PointsOf(Tail(pls), col)
       ELSE PointsOf(Tail(pls), col)

RECURSIVE Brackets(_)
Brackets(pts) ==
  IF pts = <<>> THEN <<>> ELSE Bracket(pts[1]) \o Brackets(Tail(pts))

\* PlacementsTo writing the white group before the black one
PlacementsToWhiteFirst(n) ==
  IF Len(n.Placements) = 0 THEN Frag(<<>>)
  ELSE IF \E i \in 1..Len(n.Placements) : ToSGF(n.Placements[i].point[1]).err
       THEN FragErr
       ELSE LET black == PointsOf(n.Placements, Black)
                white == PointsOf(n.Placements, White)
            IN Frag((IF Len(white) > 0 THEN AW ELSE <<>>) \o Brackets(white)
                    \o (IF Len(black) > 0 THEN AB ELSE <<>>) \o Brackets(black))

\* Placements, To
PlacementsTo(n) ==
  IF Len(n.Placements) = 0 THEN Frag(<<>>)
  ELSE IF \E i \in 1..Len(n.Placements) : ToSGF(n.Placements[i].point[1]).err
       THEN FragErr
       ELSE LET black == PointsOf(n.Placements, Black)
                white == PointsOf(n.Placements, White)
            IN Frag((IF Len(black) > 0 THEN AB ELSE <<>>) \o Brackets(black)
                    \o (IF Len(white) > 0 THEN AW ELSE <<>>) \o Brackets(white))

\* MovesFrom without the check for a move already on the node
MovesFromOverwrite(n, prop, data) ==
  LET c == FromSGFProp(prop)
  IN IF c.err THEN Fail(n)
     ELSE IF Len(data) # 1 /\ Len(data) # 0 THEN Fail(n)
     ELSE LET d == IF Len(data) = 0 THEN << <<>> >> ELSE data
              m == FromSGFPoint(c.col, d[1])
          IN IF m.err THEN Fail(n)
             ELSE Done([n EXCEPT !.Move = <<m.mv>>])

\* Moves, From
MovesFrom(n, prop, data) ==
  LET c == FromSGFProp(prop)
  IN IF c.err THEN Fail(n)
     ELSE IF n.Move # <<>> THEN Fail(n)
     ELSE IF Len(data) # 1 /\ Len(data) # 0 THEN Fail(n)
     ELSE LET d == IF Len(data) = 0 THEN << <<>> >> ELSE data
              m == FromSGFPoint(c.col, d[1])
          IN IF m.err THEN Fail(n)
             ELSE Done([n EXCEPT !.Move = <<m.mv>>])

\* MovesTo leaving a pass out, as if the node held no move
MovesToOmitPass(n) ==
  IF n.Move = <<>> THEN Frag(<<>>)
  ELSE LET mv  == n.Move[1]
           col == IF mv.color = Black THEN B
                  ELSE IF mv.color = White THEN W ELSE <<>>
       IN IF IsPass(mv) THEN Frag(<<>>)
          ELSE LET p == ToSGF(mv.point[1])
               IN IF p.err THEN FragErr ELSE Frag(col \o Bracket(p.s))

\* Moves, To
MovesTo(n) ==
  IF n.Move = <<>> THEN Frag(<<>>)
  ELSE LET mv  == n.Move[1]
           col == IF mv.color = Black THEN B
                  ELSE IF mv.color = White THEN W ELSE <<>>
       IN IF IsPass(mv) THEN Frag(col \o Bracket(<<>>))
          ELSE LET p == ToSGF(mv.point[1])
               IN IF p.err THEN FragErr ELSE Frag(col \o Bracket(p.s))

\* Komi, From: data[0] is read without a check of len(data)
KomiFrom(n, prop, data) ==
  IF Len(data) = 0 THEN Panic(n)
  ELSE LET f == ParseFloat(data[1])
       IN IF f.err THEN Fail(n)
          ELSE IF ~KomiFracOk(f.val) THEN Fail(n)
          ELSE Done([EnsureGameInfo(n) EXCEPT !.GameInfo[1].Komi = <<f.val>>])

\* KomiTo taking a komi of zero for an unset one
KomiToZeroUnset(n) ==
  IF n.GameInfo = <<>> THEN Frag(<<>>)
  ELSE IF n.GameInfo[1].Komi = <<>> THEN Frag(<<>>)
  ELSE LET komi == n.GameInfo[1].Komi[1]
       IN IF komi.int = 0 /\ komi.frac = <<>> THEN Frag(<<>>)
          ELSE IF ~KomiFracOk(komi) THEN FragErr
          ELSE Frag(KM \o Bracket(FormatFloat1(komi)))

\* Komi, To
KomiTo(n) ==
  IF n.GameInfo = <<>> THEN Frag(<<>>)
  ELSE IF n.GameInfo[1].Komi = <<>> THEN Frag(<<>>)
  ELSE LET komi == n.GameInfo[1].Komi[1]
       IN IF ~KomiFracOk(komi) THEN FragErr
          ELSE Frag(KM \o Bracket(FormatFloat1(komi)))

\* PL, From: GameInfo is created before the value is looked at
PLFrom(n, prop, data) ==
  IF Len(data) # 1 THEN Fail(n)
  ELSE LET g == EnsureGameInfo(n)
       IN IF data[1] \in {<<"B">>, <<"b">>}
          THEN Done([g EXCEPT !.GameInfo[1].Player = Black])
          ELSE IF data[1] \in {<<"W">>, <<"w">>}
          THEN Done([g EXCEPT !.GameInfo[1].Player = White])
          ELSE Fail(g)

\* PL, To
PLTo(n) ==
  IF n.GameInfo = <<>> THEN Frag(<<>>)
  ELSE LET pl == n.GameInfo[1].Player
       IN IF pl = Empty THEN Frag(<<>>)
          ELSE IF pl \in {White, Black} THEN Frag(PL \o Bracket(pl))
          ELSE FragErr

(***************************************************************************)
(* The registry: the converter list and the lookup derived from it.        *)
(***************************************************************************)
converters ==
  << [Name |-> "BoardSize",  Props |-> <<SZ>>,     Scope |-> "RootScope"],
     [Name |-> "Placements", Props |-> <<AB, AW>>, Scope |-> "AllScope"],
     [Name |-> "Moves",      Props |-> <<B, W>>,   Scope |-> "AllScope"],
     [Name |-> "Komi",       Props |-> <<KM>>,     Scope |-> "RootScope"],
     [Name |-> "PL",         Props |-> <<PL>>,     Scope |-> "RootScope"] >>

Handles(i, prop) == \E k \in 1..Len(converters[i].Props) : converters[i].Props[k] = prop

Known(prop) == \E i \in 1..Len(converters) : Handles(i, prop)

\* propToConv[prop]: the last converter of the list that names prop
propToConv(prop) ==
  LET i == CHOOSE j \in 1..Len(converters) :
             Handles(j, prop) /\ \A k \in (j + 1)..Len(converters) : ~Handles(k, prop)
  IN converters[i].Name

\* conv.From(n, prop, data) of the named converter
ConvFrom(name, n, prop, data) ==
  CASE name = "BoardSize"  -> BoardSizeFrom(n, prop, data)
    [] name = "Placements" -> PlacementsFrom(n, prop, data)
    [] name = "Moves"      -> MovesFrom(n, prop, data)
    [] name = "Komi"       -> KomiFrom(n, prop, data)
    [] name = "PL"         -> PLFrom(n, prop, data)

\* conv.To(n) of the named converter
ConvTo(name, n) ==
  CASE name = "BoardSize"  -> BoardSizeTo(n)
    [] name = "Placements" -> PlacementsTo(n)
    [] name = "Moves"      -> MovesTo(n)
    [] name = "Komi"       -> KomiTo(n)
    [] name = "PL"         -> PLTo(n)

\* a decode call as the parser makes it: look the code up, call From
From(n, prop, data) == ConvFrom(propToConv(prop), n, prop, data)

(***************************************************************************)
(* The callers: the serializer concatenates the fragments of every         *)
(* converter, the parser splits property text into codes and raw values    *)
(* and hands each to its converter.                                        *)
(***************************************************************************)
RECURSIVE EncodeFrom(_, _)
EncodeFrom(i, n) ==
  IF i > Len(converters) THEN Frag(<<>>)
  ELSE LET f    == ConvTo(converters[i].Name, n)
           rest == EncodeFrom(i + 1, n)
       IN IF f.err \/ rest.err THEN FragErr ELSE Frag(f.frag \o rest.frag)

\* the text of a node: every converter's fragment, in the list's order
EncodeNode(n) == EncodeFrom(1, n)

FirstAt(s, c) == CHOOSE i \in 1..Len(s) : s[i] = c /\ \A j \in 1..(i - 1) : s[j] # c

RECURSIVE ReadValues(_)
\* the bracketed values at the head of s, and what follows them
ReadValues(s) ==
  IF s = <<>> \/ s[1] # "[" THEN [vals |-> <<>>, rest |-> s]
  ELSE LET close == FirstAt(s, "]")
           r     == ReadValues(SubSeq(s, close + 1, Len(s)))
       IN [vals |-> <<SubSeq(s, 2, close - 1)>> \o r.vals, rest |-> r.rest]

RECURSIVE Tokenize(_)
\* property text as (code, raw values) pairs
Tokenize(s) ==
  IF s = <<>> THEN <<>>
  ELSE LET open == FirstAt(s, "[")
           r    == ReadValues(SubSeq(s, open, Len(s)))
       IN <<[prop |-> SubSeq(s, 1, open - 1), data |-> r.vals]>> \o Tokenize(r.rest)

RECURSIVE DecodeAll(_, _)
\* the pairs decoded into n one after the other, up to the first failure
DecodeAll(n, toks) ==
  IF toks = <<>> THEN Done(n)
  ELSE IF ~Known(toks[1].prop) THEN Fail(n)
  ELSE LET r == From(n, toks[1].prop, toks[1].data)
       IN IF r.res # "ok" THEN r ELSE DecodeAll(r.n, Tail(toks))

\* the node's text decoded into a fresh node
ReDecode(n) ==
  LET e == EncodeNode(n)
  IN IF e.err THEN Fail(NewNode) ELSE DecodeAll(NewNode, Tokenize(e.frag))

(***************************************************************************)
(* Raw values the calls are given.  Spec runs every converter on small     *)
(* sets; SpecRoot runs the root converters on larger ones.                 *)
(***************************************************************************)
SizeRaw == { <<"2", "5">>, <<"2", "6">>, <<"x">> }

KomiRaw == { <<"6", ".", "5">>, <<"-", "6", ".", "5">>, <<"-", "0">> }

PlayerRaw == { <<"B">>, <<"w">>, <<"x">> }

MoveRaw == { <<>>, <<"d", "p">>, <<"d">> }

PlaceRaw == { <<"d", "p">>, <<"c", "c">>, <<>> }

RootSizeRaw ==
  { <<"1">>, <<"9">>, <<"1", "9">>, <<"2", "5">>, <<"+", "7">>,
    <<"0">>, <<"2", "6">>, <<"-", "1">>, <<"a", "b", "c">>, <<>> }

RootKomiRaw ==
  { <<"6", ".", "5">>, <<"6", ".", "0">>, <<"6">>, <<"0", ".", "5">>, <<"0", ".", "0">>,
    <<"-", "0", ".", "0">>, <<"-", "0", ".", "5">>, <<"-", "6", ".", "5">>,
    <<"-", "6", ".", "0">>, <<"6", ".", "3">>, <<"-", "6", ".", "3">>,
    <<"6", ".", "2", "5">>, <<"6", ".", "5", "0">>, <<"a", "b", "c">>, <<>> }

RootPlayerRaw == { <<"B">>, <<"W">>, <<"b">>, <<"w">>, <<"x">>, <<>>, <<"B", "W">> }

\* the raw-value lists of length 0..MaxData over a set of raw values
DataLists(R) == UNION { [1..k -> R] : k \in 0..MaxData }

SizeLists == DataLists(SizeRaw)

KomiLists == DataLists(KomiRaw)

PlayerLists == DataLists(PlayerRaw)

MoveLists == DataLists(MoveRaw)

PlaceLists == DataLists(PlaceRaw)

RootSizeLists == DataLists(RootSizeRaw)

RootKomiLists == DataLists(RootKomiRaw)

RootPlayerLists == DataLists(RootPlayerRaw)

(***************************************************************************)
(* The state: one node, and how the last call ended: "ok" (a nil error),   *)
(* "err" (an error value) or "panic".  A panic ends the run.               *)
(***************************************************************************)
Running == ret # "panic"

Init ==
  /\ node = NewNode
  /\ ret = "init"

\* a decode call ends as r: the node is the one From left, the caller gets
\* From's result
Returns(r) ==
  /\ Len(r.n.Placements) <= MaxPlacements
  /\ node' = r.n
  /\ ret' = r.res

\* an encode call ends as r: the node is only read
Yields(r) ==
  /\ ret' = IF r.err THEN "err" ELSE "ok"
  /\ UNCHANGED node

DecodeBoardSize ==
  /\ Running
  /\ \E data \in SizeLists : Returns(From(node, SZ, data))

DecodePlacements ==
  /\ Running
  /\ \E prop \in {AB, AW} : \E data \in PlaceLists : Returns(From(node, prop, data))

DecodeMoves ==
  /\ Running
  /\ \E prop \in {B, W} : \E data \in MoveLists : Returns(From(node, prop, data))

DecodeKomi ==
  /\ Running
  /\ \E data \in KomiLists : Returns(From(node, KM, data))

DecodePL ==
  /\ Running
  /\ \E data \in PlayerLists : Returns(From(node, PL, data))

EncodeBoardSize ==
  /\ Running
  /\ Yields(ConvTo("BoardSize", node))

EncodePlacements ==
  /\ Running
  /\ Yields(ConvTo("Placements", node))

EncodeMoves ==
  /\ Running
  /\ Yields(ConvTo("Moves", node))

EncodeKomi ==
  /\ Running
  /\ Yields(ConvTo("Komi", node))

EncodePL ==
  /\ Running
  /\ Yields(ConvTo("PL", node))

Next ==
  \/ DecodeBoardSize
  \/ DecodePlacements
  \/ DecodeMoves
  \/ DecodeKomi
  \/ DecodePL
  \/ EncodeBoardSize
  \/ EncodePlacements
  \/ EncodeMoves
  \/ EncodeKomi
  \/ EncodePL

Spec == Init /\ [][Next]_vars

(***************************************************************************)
(* The root converters alone, on the larger sets of raw values.            *)
(***************************************************************************)
RootDecodeBoardSize ==
  /\ Running
  /\ \E data \in RootSizeLists : Returns(From(node, SZ, data))

RootDecodeKomi ==
  /\ Running
  /\ \E data \in RootKomiLists : Returns(From(node, KM, data))

RootDecodePL ==
  /\ Running
  /\ \E data \in RootPlayerLists : Returns(From(node, PL, data))

NextRoot ==
  \/ RootDecodeBoardSize
  \/ RootDecodeKomi
  \/ RootDecodePL
  \/ EncodeBoardSize
  \/ EncodeKomi
  \/ EncodePL

SpecRoot == Init /\ [][NextRoot]_vars

(***************************************************************************)
(* Properties.                                                             *)
(***************************************************************************)
HasMove(n) == n.Move # <<>>

\* C1: once a node holds a move, every B or W decode on it (either colour,
\* any raw values, a pass included) returns an error and leaves the node as
\* it is, and no call of any converter changes the move: the node keeps its
\* first move.
C1_SingleMove ==
  /\ [](HasMove(node) =>
          \A prop \in {B, W} : \A data \in MoveLists :
            LET r == From(node, prop, data)
            IN r.res = "err" /\ r.n = node)
  /\ [][HasMove(node) => node'.Move = node.Move]_vars

\* C1 witness: the node holds a black pass, a W[dp] decode on it fails, and
\* the last call returned an error
C1_Witness ==
  /\ node.Move = <<NewPass(Black)>>
  /\ From(node, W, << <<"d", "p">> >>).res = "err"
  /\ ret = "err"

\* C2: every decode call returns success or an error value; none aborts the
\* program.
C2_EveryCallReturns == ret # "panic"

\* C10: a decode call that returns an error leaves the node as it was.
C10_FailedDecodeKeepsNode == [][ret' = "err" => node' = node]_vars

SizeOf(n) == IF n.GameInfo = <<>> THEN 0 ELSE n.GameInfo[1].Size

KomiOf(n) == IF n.GameInfo = <<>> THEN <<>> ELSE n.GameInfo[1].Komi

PlayerOf(n) == IF n.GameInfo = <<>> THEN Empty ELSE n.GameInfo[1].Player

\* the value is an integer multiple of 0.5, of either sign
IsHalfMultiple(f) == f.frac \in {<<>>, <<5>>}

IsZero(f) == f.int = 0 /\ f.frac = <<>>

Half(neg, i) == [neg |-> neg, int |-> i, frac |-> <<5>>]

Whole(neg, i) == [neg |-> neg, int |-> i, frac |-> <<>>]

\* C3: a KM decode of one raw value succeeds and stores the value exactly
\* when the value is a multiple of 0.5 (negative ones included); for any
\* other raw value it fails and stores nothing.
C3_KomiAcceptsHalfMultiples ==
  \A raw \in RootKomiRaw :
    LET f == ParseFloat(raw)
        r == From(node, KM, <<raw>>)
    IN IF ~f.err /\ IsHalfMultiple(f.val)
       THEN r.res = "ok" /\ KomiOf(r.n) = <<f.val>>
       ELSE r.res = "err" /\ KomiOf(r.n) = KomiOf(node)

IsBlack(m) == m.color = Black

IsWhite(m) == m.color = White

BlackFirst(pls) == SelectSeq(pls, IsBlack) \o SelectSeq(pls, IsWhite)

SameButPlacements(a, b) ==
  /\ SizeOf(a) = SizeOf(b)
  /\ KomiOf(a) = KomiOf(b)
  /\ PlayerOf(a) = PlayerOf(b)
  /\ a.Move = b.Move

\* C4 as claimed: the node's text decoded into a fresh node gives a node
\* equal to it in size, komi, player, move and placement collection, the
\* placements in the same order.
C4_ReDecodeSameOrder ==
  LET r == ReDecode(node)
  IN r.res = "ok" /\ SameButPlacements(r.n, node) /\ r.n.Placements = node.Placements

\* C4: the node's text decoded into a fresh node gives a node equal to it
\* in size, komi (set or unset), player and move, whose placement collection
\* is the node's black placements in their order followed by its white
\* placements in their order.
C4_ReDecode ==
  LET r == ReDecode(node)
  IN /\ r.res = "ok"
     /\ SameButPlacements(r.n, node)
     /\ r.n.Placements = BlackFirst(node.Placements)

\* C4 witness: every field is set, and a white placement precedes a black one
C4_Witness ==
  /\ SizeOf(node) = 25
  /\ KomiOf(node) = <<Half(FALSE, 6)>>
  /\ PlayerOf(node) = White
  /\ HasMove(node)
  /\ Len(node.Placements) = 2
  /\ IsWhite(node.Placements[1])
  /\ IsBlack(node.Placements[2])

ColorOf(prop) == IF prop \in {B, AB} THEN Black ELSE White

PointTexts(ms) == [i \in 1..Len(ms) |-> ToSGF(ms[i].point[1]).s]

\* C5: a successful AB/AW decode appends its points, in order and with the
\* code's colour, to the end of the placement collection and changes nothing
\* else; the encoded placements are 'AB' and the black points in the
\* collection's order, then 'AW' and the white points in the collection's
\* order, a code being written exactly when its colour has a placement, and
\* nothing at all when there is no placement.
C5_PlacementsAppendAndGroup ==
  /\ \A prop \in {AB, AW} : \A data \in PlaceLists :
       LET r == From(node, prop, data)
       IN r.res = "ok" =>
            r.n = [node EXCEPT !.Placements =
                     node.Placements
                       \o [i \in 1..Len(data) |->
                             NewMove(ColorOf(prop), NewFromSGF(data[i]).pt)]]
  /\ LET black == SelectSeq(node.Placements, IsBlack)
         white == SelectSeq(node.Placements, IsWhite)
     IN PlacementsTo(node) =
          Frag((IF black # <<>> THEN AB ELSE <<>>) \o Brackets(PointTexts(black))
               \o (IF white # <<>> THEN AW ELSE <<>>) \o Brackets(PointTexts(white)))
  /\ node.Placements = <<>> => PlacementsTo(node) = Frag(<<>>)

\* C5 witness: two decodes have put a white placement before a black one
C5_Witness ==
  /\ Len(node.Placements) = 2
  /\ IsWhite(node.Placements[1])
  /\ IsBlack(node.Placements[2])
  /\ ret = "ok"

\* C6: the size is 0 or within 1..25, the komi is unset or has a fractional
\* part of 0.0 or 0.5, the player is unspecified, Black or White, and the
\* SZ, KM and PL encoders return no error.
C6_RootDomain ==
  /\ SizeOf(node) \in {0} \cup 1..25
  /\ KomiOf(node) = <<>> \/ IsHalfMultiple(KomiOf(node)[1])
  /\ PlayerOf(node) \in {Empty, Black, White}
  /\ ~BoardSizeTo(node).err
  /\ ~KomiTo(node).err
  /\ ~PLTo(node).err

\* C6 witness: every root field is set, at the top of its range, and the
\* last decode failed
C6_Witness ==
  /\ SizeOf(node) = 25
  /\ KomiOf(node) = <<Half(FALSE, 6)>>
  /\ PlayerOf(node) = White
  /\ ret = "err"

\* C7: on a node without a move, a B or W decode of no raw value or of one
\* empty raw value succeeds and sets a pass of the code's colour, and the
\* node then encodes as the code with empty brackets; a node without a move
\* encodes as the empty fragment, a node holding a pass never does; a decode
\* of two or more raw values fails and sets no move.
C7_Pass ==
  /\ ~HasMove(node) =>
       /\ MovesTo(node) = Frag(<<>>)
       /\ \A prop \in {B, W} : \A data \in MoveLists :
            LET r == From(node, prop, data)
            IN /\ data \in {<<>>, << <<>> >>} =>
                    /\ r.res = "ok"
                    /\ r.n = [node EXCEPT !.Move = <<NewPass(ColorOf(prop))>>]
                    /\ MovesTo(r.n) = Frag(prop \o <<"[", "]">>)
               /\ Len(data) >= 2 => r.res = "err" /\ r.n = node
  /\ (HasMove(node) /\ IsPass(node.Move[1])) =>
       /\ MovesTo(node) \in {Frag(<<"B", "[", "]">>), Frag(<<"W", "[", "]">>)}
       /\ MovesTo(node).frag[1] = node.Move[1].color[1]

\* C7 witness: a decode has just set a white pass
C7_Witness ==
  /\ node.Move = <<NewPass(White)>>
  /\ ret = "ok"

\* komi texts with exactly one digit, 0 or 5, after the point
OneDigitKomi ==
  { raw \in RootKomiRaw :
      /\ ~ParseFloat(raw).err
      /\ Len(raw) >= 3
      /\ raw[Len(raw) - 1] = "."
      /\ raw[Len(raw)] \in {"0", "5"} }

Upper(raw) == IF raw \in {<<"B">>, <<"b">>} THEN <<"B">> ELSE <<"W">>

\* C8: on a fresh node, SZ[s] for s in 1..25 decodes and encodes back as
\* SZ[s]; a whole or half-point komi written with one fractional digit
\* decodes and encodes back as the same text; PL of B, W, b or w decodes and
\* encodes as PL[B] or PL[W]; SZ of 0, 26 or -1 and PL of anything else fail.
C8_RootRoundTrip ==
  node = NewNode =>
    /\ \A s \in 1..25 :
         LET r == From(node, SZ, <<Itoa(s)>>)
         IN r.res = "ok" /\ BoardSizeTo(r.n) = Frag(SZ \o Bracket(Itoa(s)))
    /\ \A raw \in {<<"0">>, <<"2", "6">>, <<"-", "1">>} :
         From(node, SZ, <<raw>>).res = "err"
    /\ \A raw \in OneDigitKomi :
         LET r == From(node, KM, <<raw>>)
         IN r.res = "ok" /\ KomiTo(r.n) = Frag(KM \o Bracket(raw))
    /\ \A raw \in RootPlayerRaw :
         LET r == From(node, PL, <<raw>>)
         IN IF raw \in {<<"B">>, <<"W">>, <<"b">>, <<"w">>}
            THEN r.res = "ok" /\ PLTo(r.n) = Frag(PL \o Bracket(Upper(raw)))
            ELSE r.res = "err"

\* an unset root field encodes as the empty fragment, without an error,
\* whether GameInfo is absent or present and whatever the other fields hold
UnsetOmitted ==
  /\ SizeOf(node) = 0 => BoardSizeTo(node) = Frag(<<>>)
  /\ KomiOf(node) = <<>> => KomiTo(node) = Frag(<<>>)
  /\ PlayerOf(node) = Empty => PLTo(node) = Frag(<<>>)

KomiIsZero == KomiOf(node) # <<>> /\ IsZero(KomiOf(node)[1])

\* C9 as claimed: unset root fields are left out, and a komi specified as
\* zero encodes as 'KM[0.0]'.
C9_ZeroKomiText ==
  /\ UnsetOmitted
  /\ KomiIsZero => KomiTo(node) = Frag(<<"K", "M", "[", "0", ".", "0", "]">>)

\* C9: unset root fields are left out, and a komi specified as zero is not
\* taken for unset: it encodes as 'KM[0.0]', or as 'KM[-0.0]' when it is the
\* negative zero that KM[-0] or KM[-0.0] decodes to.
C9_UnsetOmittedZeroKept ==
  /\ UnsetOmitted
  /\ KomiIsZero =>
       KomiTo(node) =
         Frag(IF KomiOf(node)[1].neg
              THEN <<"K", "M", "[", "-", "0", ".", "0", "]">>
              ELSE <<"K", "M", "[", "0", ".", "0", "]">>)

\* C9 witness: GameInfo is present with a komi of zero, no size and no player
C9_Witness ==
  /\ node.GameInfo # <<>>
  /\ KomiOf(node) = <<Whole(FALSE, 0)>>
  /\ SizeOf(node) = 0
  /\ PlayerOf(node) = Empty
  /\ ret = "ok"

====
